---------------------------- MODULE Spec2Model ----------------------------
(***************************************************************************)
(* A model of the climate analysis pipeline of src/climate_analysis.py:    *)
(* download_data / create_sample_data / load_data / preprocess_data /      *)
(* analyze_temperature_trends / analyze_extreme_temperatures, driven by    *)
(* run_analysis.                                                           *)
(*                                                                         *)
(* A DataFrame is a sequence of rows, a row is a record whose fields are   *)
(* the columns.  Floating point columns are held as exact rationals        *)
(* <<numerator, denominator>> in lowest terms; the missing value NaN is    *)
(* <<0, 0>>.  A latitude is a whole number of degrees (the bin edges of    *)
(* pd.cut are whole degrees).  A missing category is the string "NaN".     *)
(* Of the station metadata only station_id and latitude are carried: the   *)
(* other columns are copied through the join and read by nothing.          *)
(***************************************************************************)
EXTENDS Integers, Sequences, FiniteSets, TLC

(***************************************************************************)
(* Exact rational arithmetic with a NaN.                                   *)
(***************************************************************************)
NaN == <<0, 0>>

IsNaN(x) == x[2] = 0

Abs(i) == IF i < 0 THEN -i ELSE i

RECURSIVE GCD(_, _)
GCD(a, b) == IF b = 0 THEN a ELSE GCD(b, a % b)

\* The rational n/d (d # 0) in lowest terms with a positive denominator.
Rat(n, d) ==
    LET g == GCD(Abs(n), Abs(d))
        s == IF d < 0 THEN -1 ELSE 1
    IN  <<(s * n) \div g, (s * d) \div g>>

RInt(i) == <<i, 1>>

RAdd(x, y) ==
    IF IsNaN(x) \/ IsNaN(y) THEN NaN
    ELSE Rat(x[1] * y[2] + y[1] * x[2], x[2] * y[2])

RSub(x, y) ==
    IF IsNaN(x) \/ IsNaN(y) THEN NaN
    ELSE Rat(x[1] * y[2] - y[1] * x[2], x[2] * y[2])

RMul(x, y) ==
    IF IsNaN(x) \/ IsNaN(y) THEN NaN
    ELSE Rat(x[1] * y[1], x[2] * y[2])

\* x / k for a whole number k; division by zero gives NaN (0.0 / 0).
RDivInt(x, k) ==
    IF IsNaN(x) \/ k = 0 THEN NaN ELSE Rat(x[1], x[2] * k)

\* x < y; every comparison with NaN is false.
RLess(x, y) ==
    /\ ~IsNaN(x)
    /\ ~IsNaN(y)
    /\ x[1] * y[2] < y[1] * x[2]

(***************************************************************************)
(* Sequence helpers.                                                       *)
(***************************************************************************)
RECURSIVE SelectRows(_, _)
\* The rows of df whose index is in keep, in the order of df (boolean mask).
SelectRows(df, keep) ==
    IF df = <<>> THEN <<>>
    ELSE LET n == Len(df)
             front == SelectRows(SubSeq(df, 1, n - 1), keep)
         IN  IF n \in keep THEN Append(front, df[n]) ELSE front

RECURSIVE RSum(_)
RSum(xs) ==
    IF xs = <<>> THEN RInt(0)
    ELSE RAdd(RSum(SubSeq(xs, 1, Len(xs) - 1)), xs[Len(xs)])

\* The first entry that is not NaN in place of the mean.
SeriesMean_First(xs) ==
    LET kept == SelectRows(xs, {i \in 1..Len(xs) : ~IsNaN(xs[i])})
    IN  IF kept = <<>> THEN NaN ELSE kept[1]

\* Series.mean(): NaN entries are skipped (skipna); no entry left gives NaN.
SeriesMean(xs) ==
    LET kept == SelectRows(xs, {i \in 1..Len(xs) : ~IsNaN(xs[i])})
    IN  RDivInt(RSum(kept), Len(kept))

\* One column of a frame.
Column(df, c) == [i \in 1..Len(df) |-> df[i][c]]

RECURSIVE SortedInts(_)
\* The whole numbers of S in ascending order.
SortedInts(S) ==
    IF S = {} THEN <<>>
    ELSE LET m == CHOOSE x \in S : \A y \in S : x <= y
         IN  <<m>> \o SortedInts(S \ {m})


RECURSIVE Flatten(_)
\* The concatenation of a sequence of sequences.
Flatten(ss) ==
    IF ss = <<>> THEN <<>>
    ELSE Flatten(SubSeq(ss, 1, Len(ss) - 1)) \o ss[Len(ss)]

\* The set of values of column c.
Values(df, c) == {df[i][c] : i \in 1..Len(df)}

(***************************************************************************)
(* pandas primitives.                                                      *)
(***************************************************************************)
\* pd.cut(x, bins, labels, right=True, include_lowest): the label of the bin
\* (bins[i], bins[i+1]] holding x; the first bin is closed on the left only
\* with include_lowest; a value in no bin has the missing category.
Cut(x, bins, labels, include_lowest) ==
    LET hits == {i \in 1..Len(labels) :
                    /\ \/ bins[i] < x
                       \/ include_lowest /\ i = 1 /\ x = bins[1]
                    /\ x <= bins[i + 1]}
    IN  IF hits = {} THEN "NaN" ELSE labels[CHOOSE i \in hits : TRUE]

\* pd.merge(left, right, on=key), how='inner': for every left row in order,
\* one output row per right row with the same key, carrying both rows' columns.
Merge(left, right, key) ==
    Flatten([i \in 1..Len(left) |->
        LET m == SelectRows(right, {j \in 1..Len(right) : right[j][key] = left[i][key]})
        IN  [j \in 1..Len(m) |-> left[i] @@ m[j]]])

RECURSIVE KeysInOrder(_, _)
\* The values of column key, each once, in the order of its first row.
KeysInOrder(df, key) ==
    IF df = <<>> THEN <<>>
    ELSE LET front == KeysInOrder(SubSeq(df, 1, Len(df) - 1), key)
             k == df[Len(df)][key]
         IN  IF \E i \in 1..Len(front) : front[i] = k THEN front ELSE Append(front, k)

\* The row order of an inner pd.merge on key.  pandas from 2.2 on keeps the
\* order of the left frame; earlier versions group the rows by key, the keys
\* in the order of their first row and the rows of a key in the left order.
InnerJoinOrder(merged, key, keep_left) ==
    IF keep_left THEN merged
    ELSE LET ks == KeysInOrder(merged, key)
         IN  Flatten([g \in 1..Len(ks) |->
                 SelectRows(merged, {i \in 1..Len(merged) : merged[i][key] = ks[g]})])

\* The group keys of groupby([k1, k2]) where k2 is a categorical column with
\* categories cats (in category order) and k1 a column of whole numbers: rows
\* whose k2 is missing are dropped; the keys come out sorted by (k1, category).
\* With observed=False every (k1 value, category) pair is a key.
GroupKeys2(df, k1, k2, cats, obs) ==
    LET firsts == SortedInts(IF obs
                             THEN {df[i][k1] : i \in {j \in 1..Len(df) : df[j][k2] # "NaN"}}
                             ELSE Values(df, k1))
    IN  Flatten([a \in 1..Len(firsts) |->
            LET present == {c \in 1..Len(cats) :
                               \/ ~obs
                               \/ \E i \in 1..Len(df) :
                                     df[i][k1] = firsts[a] /\ df[i][k2] = cats[c]}
                kept == SelectRows(cats, present)
            IN  [c \in 1..Len(kept) |-> <<firsts[a], kept[c]>>]])

\* df.groupby([k1, k2])['temperature_c'].mean().reset_index()
GroupMean2(df, k1, k2, cats, obs) ==
    LET keys == GroupKeys2(df, k1, k2, cats, obs)
    IN  [g \in 1..Len(keys) |->
            LET rows == SelectRows(df, {i \in 1..Len(df) :
                            df[i][k1] = keys[g][1] /\ df[i][k2] = keys[g][2]})
            IN  (k1 :> keys[g][1]) @@ (k2 :> keys[g][2]) @@
                ("temperature_c" :> SeriesMean(Column(rows, "temperature_c")))]

\* df.groupby(k)['temperature_c'].mean().reset_index(), k a column of whole numbers.
GroupMean1(df, k) ==
    LET keys == SortedInts(Values(df, k))
    IN  [g \in 1..Len(keys) |->
            LET rows == SelectRows(df, {i \in 1..Len(df) : df[i][k] = keys[g]})
            IN  (k :> keys[g]) @@
                ("temperature_c" :> SeriesMean(Column(rows, "temperature_c")))]

(***************************************************************************)
(* preprocess_data                                                         *)
(***************************************************************************)
SeasonBins == <<0, 3, 6, 9, 13>>
SeasonLabels == <<"Winter", "Spring", "Summer", "Fall">>

\* The season column: pd.cut over the month, then December set to Winter.
SeasonOf(month) ==
    LET cut == Cut(month, SeasonBins, SeasonLabels, TRUE)
    IN  IF month = 12 THEN "Winter" ELSE cut

RegionBins == <<-90, -60, -30, 0, 30, 60, 90>>
RegionLabels == <<"Antarctica", "Southern", "Tropical S", "Tropical N", "Northern", "Arctic">>

\* RegionOf with right=False: every bin holds its lower edge, not its upper.
RegionOf_LeftClosed(latitude) ==
    LET hits == {i \in 1..Len(RegionLabels) :
                    RegionBins[i] <= latitude /\ latitude < RegionBins[i + 1]}
    IN  IF hits = {} THEN "NaN" ELSE RegionLabels[CHOOSE i \in hits : TRUE]

\* RegionOf with include_lowest=True: -90 joins the first bin.
RegionOf_IncludeLowest(latitude) == Cut(latitude, RegionBins, RegionLabels, TRUE)

\* The region column: pd.cut over the latitude, include_lowest left at False.
RegionOf(latitude) == Cut(latitude, RegionBins, RegionLabels, FALSE)

\* DecadeOf rounding to the nearest decade instead of down.
DecadeOf_Nearest(year) == ((year + 5) \div 10) * 10

\* (year // 10) * 10
DecadeOf(year) == (year \div 10) * 10

\* pd.to_datetime of (year, month, day=1) raises on a month outside 1..12.
DateRaises(df) == \E i \in 1..Len(df) : df[i].month \notin 1..12

\* WithDerivedColumns without the division of line 159.
WithDerivedColumns_Tenths(df) ==
    [i \in 1..Len(df) |->
        [temperature_c |-> RInt(df[i].temperature),
         date |-> <<df[i].year, df[i].month, 1>>,
         season |-> SeasonOf(df[i].month)] @@ df[i]]

\* temp_df after lines 159-173: the columns temperature_c, date and season
\* are added to the caller's frame in place.
WithDerivedColumns(df) ==
    [i \in 1..Len(df) |->
        [temperature_c |-> Rat(df[i].temperature, 10),
         date |-> <<df[i].year, df[i].month, 1>>,
         season |-> SeasonOf(df[i].month)] @@ df[i]]

\* temp_df after line 159 alone (to_datetime raised on line 162).
WithTemperatureC(df) ==
    [i \in 1..Len(df) |-> [temperature_c |-> Rat(df[i].temperature, 10)] @@ df[i]]

\* Enriched keeping only the first joined row of every station.
Enriched_Deduplicated(df, meta) ==
    LET joined == Merge(df, meta, "station_id")
        first == SelectRows(joined, {i \in 1..Len(joined) :
                     \A j \in 1..(i - 1) : joined[j].station_id # joined[i].station_id})
    IN  [i \in 1..Len(first) |->
            [region |-> RegionOf(first[i].latitude)] @@ first[i]]

\* The frame preprocess_data returns: the join with the metadata, then region.
Enriched(df, meta) ==
    LET joined == Merge(df, meta, "station_id")
    IN  [i \in 1..Len(joined) |->
            [region |-> RegionOf(joined[i].latitude)] @@ joined[i]]

(***************************************************************************)
(* analyze_temperature_trends                                              *)
(***************************************************************************)
BaselineStart == 1961
BaselineEnd == 1990

\* AnnualGlobalAvg with the anomaly taken against the mean of all records.
AnnualGlobalAvg_RecordWeighted(data) ==
    LET avg == GroupMean1(data, "year")
        overall == SeriesMean(Column(data, "temperature_c"))
    IN  [i \in 1..Len(avg) |->
            [temp_anomaly |-> RSub(avg[i].temperature_c, overall)] @@ avg[i]]

\* AnnualGlobalAvg with the anomaly taken against the 1961-1990 years only.
AnnualGlobalAvg_BaselineRelative(data) ==
    LET avg == GroupMean1(data, "year")
        base == SelectRows(avg, {i \in 1..Len(avg) :
                    avg[i].year >= BaselineStart /\ avg[i].year <= BaselineEnd})
        overall == SeriesMean(Column(base, "temperature_c"))
    IN  [i \in 1..Len(avg) |->
            [temp_anomaly |-> RSub(avg[i].temperature_c, overall)] @@ avg[i]]

\* Lines 195-196: the per-year means and their distance to the mean of the
\* temperature_c column of that same table.
AnnualGlobalAvg(data) ==
    LET avg == GroupMean1(data, "year")
        overall == SeriesMean(Column(avg, "temperature_c"))
    IN  [i \in 1..Len(avg) |->
            [temp_anomaly |-> RSub(avg[i].temperature_c, overall)] @@ avg[i]]

\* Line 199.
AnnualRegionalMeans(data, obs) ==
    GroupMean2(data, "year", "region", RegionLabels, obs)

\* BaselinePeriod with both end years left out.
BaselinePeriod_Exclusive(avg) ==
    {i \in 1..Len(avg) : avg[i].year > BaselineStart /\ avg[i].year < BaselineEnd}

\* Line 202: the boolean mask of the baseline years.
BaselinePeriod(avg) ==
    {i \in 1..Len(avg) : avg[i].year >= BaselineStart /\ avg[i].year <= BaselineEnd}

\* The masked rows themselves as baselines, one per year and region.
RegionalBaselines_Ungrouped(avg, obs) ==
    LET masked == SelectRows(avg, BaselinePeriod(avg))
    IN  [i \in 1..Len(masked) |->
            [region |-> masked[i].region, baseline_temp |-> masked[i].temperature_c]]

\* Lines 203-204: groupby('region') of the masked rows; region is categorical,
\* so with observed=False every category has a row (NaN when it has no value).
RegionalBaselines(avg, obs) ==
    LET masked == SelectRows(avg, BaselinePeriod(avg))
        present == {c \in 1..Len(RegionLabels) :
                       ~obs \/ RegionLabels[c] \in Values(masked, "region")}
        keys == SelectRows(RegionLabels, present)
    IN  [g \in 1..Len(keys) |->
            LET rows == SelectRows(masked, {i \in 1..Len(masked) : masked[i].region = keys[g]})
            IN  [region |-> keys[g],
                 baseline_temp |-> SeriesMean(Column(rows, "temperature_c"))]]

\* Lines 199-207.
AnnualRegionalAvg(data, obs) ==
    LET avg == AnnualRegionalMeans(data, obs)
        merged == Merge(avg, RegionalBaselines(avg, obs), "region")
    IN  [i \in 1..Len(merged) |->
            [temp_anomaly |-> RSub(merged[i].temperature_c, merged[i].baseline_temp)]
                @@ merged[i]]

\* Line 210.
SeasonalAvg(data, obs) == GroupMean2(data, "year", "season", SeasonLabels, obs)

\* Line 213 (and 244): the decade column.
WithDecade(data) ==
    [i \in 1..Len(data) |-> [decade |-> DecadeOf(data[i].year)] @@ data[i]]

\* Line 214.
DecadalAvg(data, obs) ==
    GroupMean2(WithDecade(data), "decade", "region", RegionLabels, obs)

(***************************************************************************)
(* analyze_extreme_temperatures                                            *)
(***************************************************************************)
\* The station identifiers in ascending (string) order.
StationOrder == <<"S1", "S2", "S3", "STATION000", "STATION001">>

\* Series.std() squared: the sample variance (ddof=1); a group of fewer than
\* two values has none.  The std column of the model holds this square, and
\* the two comparisons against mean +- 2*std are made on squares.
SampleVar(xs) ==
    LET n == Len(xs)
        m == SeriesMean(xs)
        sq == [i \in 1..n |-> RMul(RSub(xs[i], m), RSub(xs[i], m))]
    IN  IF n < 2 THEN NaN ELSE RDivInt(RSum(sq), n - 1)

\* AboveMeanPlus2Std with >= for >.
AboveMeanPlus2Std_Inclusive(t, mean, var) ==
    LET d == RSub(t, mean)
    IN  /\ ~IsNaN(d) /\ ~IsNaN(var)
        /\ ~RLess(d, RInt(0))
        /\ ~RLess(RMul(d, d), RMul(RInt(4), var))

\* t > mean + std.
AboveMeanPlus2Std_OneStd(t, mean, var) ==
    LET d == RSub(t, mean)
    IN  RLess(RInt(0), d) /\ RLess(var, RMul(d, d))

\* t > mean + 2 * std, with var = std * std and std >= 0.
AboveMeanPlus2Std(t, mean, var) ==
    LET d == RSub(t, mean)
    IN  RLess(RInt(0), d) /\ RLess(RMul(RInt(4), var), RMul(d, d))

\* t away from mean by more than 2 * std, on either side.
BelowMeanMinus2Std_EitherSide(t, mean, var) ==
    LET d == RSub(t, mean)
    IN  ~IsNaN(d) /\ RLess(RMul(RInt(4), var), RMul(d, d))

\* t <= mean - 2 * std.
BelowMeanMinus2Std_Inclusive(t, mean, var) ==
    LET d == RSub(t, mean)
    IN  /\ ~IsNaN(d) /\ ~IsNaN(var)
        /\ ~RLess(RInt(0), d)
        /\ ~RLess(RMul(d, d), RMul(RInt(4), var))

\* t < mean - 2 * std, with var = std * std and std >= 0.
BelowMeanMinus2Std(t, mean, var) ==
    LET d == RSub(t, mean)
    IN  RLess(d, RInt(0)) /\ RLess(RMul(RInt(4), var), RMul(d, d))

\* Line 237: one row per station_id, sorted, with the mean and the std.
StationStats(data) ==
    LET keys == SelectRows(StationOrder,
                    {k \in 1..Len(StationOrder) : StationOrder[k] \in Values(data, "station_id")})
    IN  [g \in 1..Len(keys) |->
            LET temps == Column(SelectRows(data,
                            {i \in 1..Len(data) : data[i].station_id = keys[g]}),
                            "temperature_c")
            IN  [station_id |-> keys[g], mean |-> SeriesMean(temps), std |-> SampleVar(temps)]]

\* Lines 238-244: the local frame with mean, std, the two flags and decade.
Flagged(data) ==
    LET merged == Merge(data, StationStats(data), "station_id")
    IN  [i \in 1..Len(merged) |->
            [extreme_hot |-> AboveMeanPlus2Std(merged[i].temperature_c,
                                               merged[i].mean, merged[i].std),
             extreme_cold |-> BelowMeanMinus2Std(merged[i].temperature_c,
                                                 merged[i].mean, merged[i].std),
             decade |-> DecadeOf(merged[i].year)] @@ merged[i]]

\* The flags of a region summed in every row of the region, whatever its decade.
ExtremeCounts_PerRegion(data, obs) ==
    LET f == Flagged(data)
        keys == GroupKeys2(f, "decade", "region", RegionLabels, obs)
    IN  [g \in 1..Len(keys) |->
            LET cell == {i \in 1..Len(f) : f[i].region = keys[g][2]}
            IN  [decade |-> keys[g][1], region |-> keys[g][2],
                 extreme_hot |-> Cardinality({i \in cell : f[i].extreme_hot}),
                 extreme_cold |-> Cardinality({i \in cell : f[i].extreme_cold})]]

\* Line 245: the flags summed per (decade, region); an unobserved pair sums to 0.
ExtremeCounts(data, obs) ==
    LET f == Flagged(data)
        keys == GroupKeys2(f, "decade", "region", RegionLabels, obs)
    IN  [g \in 1..Len(keys) |->
            LET cell == {i \in 1..Len(f) :
                            f[i].decade = keys[g][1] /\ f[i].region = keys[g][2]}
            IN  [decade |-> keys[g][1], region |-> keys[g][2],
                 extreme_hot |-> Cardinality({i \in cell : f[i].extreme_hot}),
                 extreme_cold |-> Cardinality({i \in cell : f[i].extreme_cold})]]

(***************************************************************************)
(* create_sample_data: the seeded synthetic dataset, scaled down to two    *)
(* stations, three years (the first, one of the baseline window, the last) *)
(* and two months.                                                         *)
(***************************************************************************)
SampleMetadata ==
    << [station_id |-> "STATION000", latitude |-> 45],
       [station_id |-> "STATION001", latitude |-> -20] >>

SampleTemperature ==
    << [station_id |-> "STATION000", year |-> 1960, month |-> 1, temperature |-> 122],
       [station_id |-> "STATION000", year |-> 1960, month |-> 7, temperature |-> 113],
       [station_id |-> "STATION000", year |-> 1975, month |-> 1, temperature |-> 118],
       [station_id |-> "STATION000", year |-> 1975, month |-> 7, temperature |-> 116],
       [station_id |-> "STATION000", year |-> 2020, month |-> 1, temperature |-> 127],
       [station_id |-> "STATION000", year |-> 2020, month |-> 7, temperature |-> 119],
       [station_id |-> "STATION001", year |-> 1960, month |-> 1, temperature |-> 184],
       [station_id |-> "STATION001", year |-> 1960, month |-> 7, temperature |-> 196],
       [station_id |-> "STATION001", year |-> 1975, month |-> 1, temperature |-> 193],
       [station_id |-> "STATION001", year |-> 1975, month |-> 7, temperature |-> 187],
       [station_id |-> "STATION001", year |-> 2020, month |-> 1, temperature |-> 188],
       [station_id |-> "STATION001", year |-> 2020, month |-> 7, temperature |-> 201] >>

(***************************************************************************)
(* The state of one run_analysis execution.                                *)
(***************************************************************************)
VARIABLES
    pc,                   \* the statement of run_analysis to execute next
    observed,             \* the installed pandas' default of groupby(observed=)
    left_order,           \* the installed pandas' inner merge keeps the left order
    run,                  \* which execution this is, what it found and fetched
    written_by,           \* for every result file, the execution that wrote it
    previous,             \* input, fetch and result files of the execution before
    served,               \* what the last request for a result table got
    temperature_csv,      \* data/temperature_data.csv
    station_metadata_csv, \* data/station_metadata.csv
    ghcnm_tar,            \* data/ghcnm_data.tar.gz exists
    temp_df,              \* run_analysis' local temp_df
    station_metadata,     \* run_analysis' local station_metadata
    data,                 \* run_analysis' local data
    trend_results,        \* run_analysis' local trend_results
    extreme_results,      \* run_analysis' local extreme_results
    results               \* the files of the results directory

vars == <<pc, observed, left_order, run, written_by, previous, served, temperature_csv, station_metadata_csv, ghcnm_tar, temp_df,
          station_metadata, data, trend_results, extreme_results, results>>

ResultFiles == {"annual_global_avg", "annual_regional_avg", "seasonal_avg",
                "decadal_avg", "extreme_counts", "processed_data"}

\* The files analyze_temperature_trends writes.
TrendFiles == {"annual_global_avg", "annual_regional_avg", "seasonal_avg", "decadal_avg"}

Absent == [exists |-> FALSE, rows |-> <<>>]

File(rows) == [exists |-> TRUE, rows |-> rows]

NoTrendResults ==
    [annual_global_avg |-> <<>>, annual_regional_avg |-> <<>>,
     seasonal_avg |-> <<>>, decadal_avg |-> <<>>]

\* Execution n, started with the two input files as given, before its
\* download: which of the files it found, and that it has not changed them.
Run(n, temp_file, meta_file) ==
    [n |-> n, had_temperature |-> temp_file.exists, had_metadata |-> meta_file.exists,
     input_kept |-> TRUE, download |-> "pending"]

NoPrevious == [n |-> 0]

NotAsked == [table |-> "", outcome |-> "none", rows |-> <<>>]

\* The sequences of at most n rows drawn from the set R.
FramesUpTo(R, n) == UNION {[1..k -> R] : k \in 0..n}

\* Before the first run_analysis, the two input files as given.  groupby's
\* observed=True is the default from pandas 3 on, where the merge keeps the
\* left order.
InitFiles(temp_file, meta_file) ==
    /\ pc = "download_data"
    /\ observed \in BOOLEAN
    /\ left_order \in BOOLEAN
    /\ observed => left_order
    /\ temperature_csv = temp_file
    /\ station_metadata_csv = meta_file
    /\ run = Run(1, temp_file, meta_file)
    /\ written_by = [f \in ResultFiles |-> 0]
    /\ previous = NoPrevious
    /\ served = NotAsked
    /\ ghcnm_tar = FALSE
    /\ temp_df = <<>>
    /\ station_metadata = <<>>
    /\ data = <<>>
    /\ trend_results = NoTrendResults
    /\ extreme_results = <<>>
    /\ results = [f \in ResultFiles |-> Absent]

\* Before the first run_analysis: the two input files hold temp and meta.
InitWith(temp, meta) == InitFiles(File(temp), File(meta))

(***************************************************************************)
(* run_analysis, statement by statement.                                   *)
(***************************************************************************)
\* Lines 45-53: the download succeeds and the archive is saved; nothing
\* reads it afterwards.
DownloadSucceeds ==
    /\ pc = "download_data"
    /\ ghcnm_tar' = TRUE
    /\ run' = [run EXCEPT !.download = "ok"]
    /\ pc' = "load_data"
    /\ UNCHANGED <<written_by, observed, left_order, previous, served, temperature_csv,
                   station_metadata_csv, temp_df,
                   station_metadata, data, trend_results, extreme_results, results>>

\* Lines 56-59: the download fails and create_sample_data writes both files.
DownloadFails ==
    /\ pc = "download_data"
    /\ temperature_csv' = File(SampleTemperature)
    /\ station_metadata_csv' = File(SampleMetadata)
    /\ run' = [run EXCEPT !.download = "failed",
                           !.input_kept = /\ @
                                          /\ temperature_csv' = temperature_csv
                                          /\ station_metadata_csv' = station_metadata_csv]
    /\ pc' = "load_data"
    /\ UNCHANGED <<written_by, observed, left_order, previous, served, ghcnm_tar,
                   temp_df, station_metadata, data, trend_results, extreme_results,
                   results>>

\* load_data raising when an input file is missing.
LoadData_Unavailable ==
    /\ pc = "load_data"
    /\ IF ~(temperature_csv.exists /\ station_metadata_csv.exists)
       THEN /\ pc' = "raised"
            /\ UNCHANGED <<temperature_csv, station_metadata_csv, temp_df, station_metadata>>
       ELSE /\ temp_df' = temperature_csv.rows
            /\ station_metadata' = station_metadata_csv.rows
            /\ pc' = "preprocess_data"
            /\ UNCHANGED <<temperature_csv, station_metadata_csv>>
    /\ UNCHANGED <<run, written_by, observed, left_order, previous, served, ghcnm_tar,
                   data, trend_results, extreme_results, results>>

\* Lines 134-150.
LoadData ==
    /\ pc = "load_data"
    /\ IF ~(temperature_csv.exists /\ station_metadata_csv.exists)
       THEN /\ temperature_csv' = File(SampleTemperature)
            /\ station_metadata_csv' = File(SampleMetadata)
            /\ temp_df' = SampleTemperature
            /\ station_metadata' = SampleMetadata
            /\ run' = [run EXCEPT !.input_kept = FALSE]
       ELSE /\ temp_df' = temperature_csv.rows
            /\ station_metadata' = station_metadata_csv.rows
            /\ UNCHANGED <<temperature_csv, station_metadata_csv, run>>
    /\ pc' = "preprocess_data"
    /\ UNCHANGED <<written_by, observed, left_order, previous, served, ghcnm_tar,
                   data, trend_results, extreme_results, results>>

\* Lines 152-186; an exception of to_datetime leaves run_analysis.
PreprocessData ==
    /\ pc = "preprocess_data"
    /\ IF DateRaises(temp_df)
       THEN /\ temp_df' = WithTemperatureC(temp_df)
            /\ pc' = "raised"
            /\ UNCHANGED data
       ELSE /\ temp_df' = WithDerivedColumns(temp_df)
            /\ data' = InnerJoinOrder(Enriched(temp_df', station_metadata),
                                      "station_id", left_order)
            /\ pc' = "analyze_temperature_trends"
    /\ UNCHANGED <<run, written_by, observed, left_order, previous, served, temperature_csv,
                   station_metadata_csv, ghcnm_tar,
                   station_metadata, trend_results, extreme_results, results>>

\* Lines 188-228: the four tables, the decade column added to the caller's
\* frame, the four files written.
AnalyzeTemperatureTrends ==
    /\ pc = "analyze_temperature_trends"
    /\ trend_results' =
          [annual_global_avg |-> AnnualGlobalAvg(data),
           annual_regional_avg |->
               InnerJoinOrder(AnnualRegionalAvg(data, observed), "region", left_order),
           seasonal_avg |-> SeasonalAvg(data, observed),
           decadal_avg |-> DecadalAvg(data, observed)]
    /\ data' = WithDecade(data)
    /\ results' = [results EXCEPT
          !["annual_global_avg"] = File(trend_results'.annual_global_avg),
          !["annual_regional_avg"] = File(trend_results'.annual_regional_avg),
          !["seasonal_avg"] = File(trend_results'.seasonal_avg),
          !["decadal_avg"] = File(trend_results'.decadal_avg)]
    /\ written_by' = [f \in ResultFiles |->
          IF f \in TrendFiles THEN run.n ELSE written_by[f]]
    /\ pc' = "analyze_extreme_temperatures"
    /\ UNCHANGED <<run, observed, left_order, previous, served, temperature_csv,
                   station_metadata_csv, ghcnm_tar,
                   temp_df, station_metadata, extreme_results>>

\* Lines 230-251 with the enriched frame saved by the detector itself.
AnalyzeExtremeTemperatures_Saving ==
    /\ pc = "analyze_extreme_temperatures"
    /\ extreme_results' = ExtremeCounts(data, observed)
    /\ results' = [results EXCEPT !["extreme_counts"] = File(extreme_results'),
                                  !["processed_data"] = File(data)]
    /\ written_by' = [written_by EXCEPT !["extreme_counts"] = run.n,
                                        !["processed_data"] = run.n]
    /\ pc' = "save_processed_data"
    /\ UNCHANGED <<run, observed, left_order, previous, served, temperature_csv,
                   station_metadata_csv, ghcnm_tar,
                   temp_df, station_metadata, data, trend_results>>

\* Lines 230-251: the merge makes a frame of its own, the caller's is left alone.
AnalyzeExtremeTemperatures ==
    /\ pc = "analyze_extreme_temperatures"
    /\ extreme_results' = ExtremeCounts(data, observed)
    /\ results' = [results EXCEPT !["extreme_counts"] = File(extreme_results')]
    /\ written_by' = [written_by EXCEPT !["extreme_counts"] = run.n]
    /\ pc' = "save_processed_data"
    /\ UNCHANGED <<run, observed, left_order, previous, served, temperature_csv,
                   station_metadata_csv, ghcnm_tar,
                   temp_df, station_metadata, data, trend_results>>

\* Line 278 appending to the file that is there.
SaveProcessedData_Append ==
    /\ pc = "save_processed_data"
    /\ results' = [results EXCEPT
          !["processed_data"] = File(results["processed_data"].rows \o data)]
    /\ written_by' = [written_by EXCEPT !["processed_data"] = run.n]
    /\ pc' = "done"
    /\ UNCHANGED <<run, observed, left_order, previous, served, temperature_csv,
                   station_metadata_csv, ghcnm_tar,
                   temp_df, station_metadata, data, trend_results, extreme_results>>

\* Line 278.
SaveProcessedData ==
    /\ pc = "save_processed_data"
    /\ results' = [results EXCEPT !["processed_data"] = File(data)]
    /\ written_by' = [written_by EXCEPT !["processed_data"] = run.n]
    /\ pc' = "done"
    /\ UNCHANGED <<run, observed, left_order, previous, served, temperature_csv,
                   station_metadata_csv, ghcnm_tar,
                   temp_df, station_metadata, data, trend_results, extreme_results>>

Next ==
    \/ DownloadSucceeds
    \/ DownloadFails
    \/ LoadData
    \/ PreprocessData
    \/ AnalyzeTemperatureTrends
    \/ AnalyzeExtremeTemperatures
    \/ SaveProcessedData

(***************************************************************************)
(* A to_csv that raises (the disk is full, the file is locked): the        *)
(* exception leaves run_analysis, which catches nothing after the download.*)
(***************************************************************************)
\* The files of lines 217-220 in the order they are written.
TrendFileOrder ==
    <<"annual_global_avg", "annual_regional_avg", "seasonal_avg", "decadal_avg">>

\* Lines 195-214: the table that goes to file f.
TrendTable(f) ==
    CASE f = "annual_global_avg" -> AnnualGlobalAvg(data)
      [] f = "annual_regional_avg" ->
             InnerJoinOrder(AnnualRegionalAvg(data, observed), "region", left_order)
      [] f = "seasonal_avg" -> SeasonalAvg(data, observed)
      [] f = "decadal_avg" -> DecadalAvg(data, observed)

\* Lines 213-220: the decade column is on the caller's frame, the first
\* files are written, the next to_csv raises and nothing is returned.
TrendsToCsvRaises ==
    /\ pc = "analyze_temperature_trends"
    /\ \E written \in 0..(Len(TrendFileOrder) - 1) :
          LET done == {TrendFileOrder[k] : k \in 1..written}
          IN  /\ results' = [f \in ResultFiles |->
                    IF f \in done THEN File(TrendTable(f)) ELSE results[f]]
              /\ written_by' = [f \in ResultFiles |->
                    IF f \in done THEN run.n ELSE written_by[f]]
    /\ data' = WithDecade(data)
    /\ pc' = "raised"
    /\ UNCHANGED <<run, observed, left_order, previous, served, temperature_csv,
                   station_metadata_csv, ghcnm_tar, temp_df, station_metadata,
                   trend_results, extreme_results>>

\* Line 248 raises: extreme_counts.csv is not written.
ExtremesToCsvRaises ==
    /\ pc = "analyze_extreme_temperatures"
    /\ pc' = "raised"
    /\ UNCHANGED <<run, written_by, observed, left_order, previous, served,
                   temperature_csv, station_metadata_csv, ghcnm_tar, temp_df,
                   station_metadata, data, trend_results, extreme_results, results>>

\* Line 278 raises: processed_data.csv is not written.
SaveToCsvRaises ==
    /\ pc = "save_processed_data"
    /\ pc' = "raised"
    /\ UNCHANGED <<run, written_by, observed, left_order, previous, served,
                   temperature_csv, station_metadata_csv, ghcnm_tar, temp_df,
                   station_metadata, data, trend_results, extreme_results, results>>

(***************************************************************************)
(* The script is started again after an execution has ended.               *)
(***************************************************************************)
MaxRuns == 2

\* Lines 289-290: a new process, its locals fresh, the files as they were left.
RunAgain ==
    /\ pc \in {"done", "raised"}
    /\ run.n < MaxRuns
    /\ previous' = [n |-> run.n, completed |-> pc = "done",
                    input_kept |-> run.input_kept,
                    download |-> run.download, results |-> results]
    /\ run' = Run(run.n + 1, temperature_csv, station_metadata_csv)
    /\ pc' = "download_data"
    /\ temp_df' = <<>>
    /\ station_metadata' = <<>>
    /\ data' = <<>>
    /\ trend_results' = NoTrendResults
    /\ extreme_results' = <<>>
    /\ UNCHANGED <<written_by, observed, left_order, served, temperature_csv,
                   station_metadata_csv, ghcnm_tar, results>>

NextStore ==
    \/ Next
    \/ TrendsToCsvRaises
    \/ ExtremesToCsvRaises
    \/ SaveToCsvRaises
    \/ RunAgain

(***************************************************************************)
(* Inputs.  Station S1 lies in Tropical N, S2 in Northern, S3 has no       *)
(* metadata row.                                                           *)
(***************************************************************************)
MaxRecords == 3
MaxEnrichRecords == 2
MaxDecadeRecords == 3
MaxStationRecords == 6

Station(id, lat) == [station_id |-> id, latitude |-> lat]

TwoStations == <<Station("S1", 10), Station("S2", 45)>>

\* Aggregation: both sides of the two ends of the baseline window.
TrendRows ==
    [station_id : {"S1"}, year : {1961, 1990}, month : {1}, temperature : {100, 130}]
    \cup [station_id : {"S1"}, year : {1960, 1991}, month : {1}, temperature : {130}]
    \cup [station_id : {"S2"}, year : {1961, 1991}, month : {1}, temperature : {100}]

Init ==
    \E temp \in FramesUpTo(TrendRows, MaxRecords) : InitWith(temp, TwoStations)

Spec == Init /\ [][Next]_vars

\* Enrichment: every month, every latitude, stations with and without metadata.
EnrichRows ==
    [station_id : {"S1"}, year : {2000}, month : 1..12, temperature : {150}]
    \cup [station_id : {"S2", "S3"}, year : {2000}, month : {1}, temperature : {150}]

EnrichMetadata ==
    {TwoStations,
     <<Station("S2", 45), Station("S1", 10)>>,
     <<Station("S1", 10)>>,
     <<Station("S1", 10), Station("S1", 45)>>}

Latitudes == -90..90

InitEnrich ==
    \/ \E temp \in FramesUpTo(EnrichRows, MaxEnrichRecords), meta \in EnrichMetadata :
          InitWith(temp, meta)
    \/ \E lat \in Latitudes :
          InitWith(<<[station_id |-> "S1", year |-> 2000, month |-> 1, temperature |-> 150]>>,
                   <<Station("S1", lat)>>)

SpecEnrich == InitEnrich /\ [][Next]_vars

\* Decades: the last year of one decade, the first of the next, and 2020.
DecadeRows ==
    [station_id : {"S1"}, year : {1969, 1970, 2020}, month : {1}, temperature : {100, 130}]
    \cup [station_id : {"S2"}, year : {1969, 1970}, month : {1}, temperature : {100, 130}]

InitDecade ==
    \E temp \in FramesUpTo(DecadeRows, MaxDecadeRecords) : InitWith(temp, TwoStations)

SpecDecade == InitDecade /\ [][Next]_vars

\* Extremes: up to MaxStationRecords monthly records of S1 after two fixed,
\* far apart records of S2.
StationTemps == {100, 110, 150}

OtherStation ==
    << [station_id |-> "S2", year |-> 2000, month |-> 1, temperature |-> 0],
       [station_id |-> "S2", year |-> 2000, month |-> 2, temperature |-> 400] >>

StationFrame(temps) ==
    [i \in 1..Len(temps) |->
        [station_id |-> "S1", year |-> 2000, month |-> ((i - 1) % 12) + 1,
         temperature |-> temps[i]]]

\* Four records of 10 degrees and one of 100, in tenths of a degree.
FourAndOne == <<100, 100, 100, 100, 1000>>

InitExtreme ==
    \/ \E temps \in FramesUpTo(StationTemps, MaxStationRecords) :
          InitWith(OtherStation \o StationFrame(temps), TwoStations)
    \/ \E temps \in {FourAndOne, <<100>> \o FourAndOne} :
          InitWith(OtherStation \o StationFrame(temps), TwoStations)

SpecExtreme == InitExtreme /\ [][Next]_vars

\* Counts: the records of S1 five years apart, S1 in Tropical N or on the
\* south pole, where line 179 leaves the region missing.
CountTemps == {100, 150}

CountFrame(temps) ==
    [i \in 1..Len(temps) |->
        [station_id |-> "S1", year |-> 1985 + 5 * i, month |-> 1,
         temperature |-> temps[i]]]

InitCounts ==
    \E temps \in FramesUpTo(CountTemps, MaxStationRecords), lat \in {10, -90} :
        InitWith(OtherStation \o CountFrame(temps), <<Station("S1", lat), Station("S2", 45)>>)

SpecCounts == InitCounts /\ [][Next]_vars

(***************************************************************************)
(* The consumers (app.py, visualization.py): load_results, then the lookup *)
(* of one table in what it returned.                                       *)
(***************************************************************************)
\* load_results with an empty table in place of every missing file.
LoadResults_Placeholders(store) ==
    [raised |-> "",
     tables |-> [f \in ResultFiles |-> IF store[f].exists THEN store[f].rows ELSE <<>>]]

\* load_results: the tables of the files that exist; FileNotFoundError when
\* none of the six exists, no error when only some are missing.
LoadResults(store) ==
    LET found == {f \in ResultFiles : store[f].exists}
    IN  IF found = {}
        THEN [raised |-> "FileNotFoundError", tables |-> <<>>]
        ELSE [raised |-> "", tables |-> [f \in found |-> store[f].rows]]

\* A plot function or endpoint: results = load_results(), then results[name].
Serve(store, name) ==
    LET loaded == LoadResults(store)
    IN  IF loaded.raised # ""
        THEN [table |-> name, outcome |-> loaded.raised, rows |-> <<>>]
        ELSE IF name \notin DOMAIN loaded.tables
        THEN [table |-> name, outcome |-> "KeyError", rows |-> <<>>]
        ELSE [table |-> name, outcome |-> "returned", rows |-> loaded.tables[name]]

\* A consumer asks for one of the six tables.
Request ==
    /\ \E name \in ResultFiles : served' = Serve(results, name)
    /\ UNCHANGED <<pc, observed, left_order, run, written_by, previous,
                   temperature_csv, station_metadata_csv, ghcnm_tar, temp_df,
                   station_metadata, data, trend_results, extreme_results, results>>

NextServe ==
    \/ Next
    \/ TrendsToCsvRaises
    \/ ExtremesToCsvRaises
    \/ SaveToCsvRaises
    \/ Request

\* The result store over executions: well-formed and malformed months, input
\* files present and missing.
MaxStoreRecords == 2

StoreRows ==
    [station_id : {"S1"}, year : {2000}, month : {1, 13}, temperature : {100}]

InitStore ==
    \/ \E temp \in FramesUpTo(StoreRows, MaxStoreRecords) : InitWith(temp, TwoStations)
    \/ \E temp_file \in {Absent, File(<<>>)}, meta_file \in {Absent, File(TwoStations)} :
          /\ Absent \in {temp_file, meta_file}
          /\ InitFiles(temp_file, meta_file)

SpecStore == InitStore /\ [][NextStore]_vars

\* The result store and its consumers during and after one execution.
SpecServe == InitStore /\ [][NextServe]_vars

\* Lines 56-63 and 262-263: the download fails and a to_csv of
\* create_sample_data raises (lines 130-131: the metadata file first, the
\* temperature file second); download_data re-raises, run_analysis logs a
\* warning and goes on to load_data.
SampleToCsvRaises ==
    /\ pc = "download_data"
    /\ \E written \in 0..1 :
          station_metadata_csv' =
              IF written = 1 THEN File(SampleMetadata) ELSE station_metadata_csv
    /\ run' = [run EXCEPT !.download = "failed",
                           !.input_kept = @ /\ station_metadata_csv' = station_metadata_csv]
    /\ pc' = "load_data"
    /\ UNCHANGED <<written_by, observed, left_order, previous, served, ghcnm_tar,
                   temperature_csv, temp_df, station_metadata, data, trend_results,
                   extreme_results, results>>

NextInput ==
    \/ Next
    \/ SampleToCsvRaises

\* One execution over input files present or missing, with a create_sample_data
\* that may fail to write.
SpecInput == InitStore /\ [][NextInput]_vars

\* Lines 195-214 with each table written as soon as it is computed: the
\* computation after the first tables raises.
TrendsComputeRaises_WritingAsComputed ==
    /\ pc = "analyze_temperature_trends"
    /\ \E computed \in 1..(Len(TrendFileOrder) - 1) :
          LET done == {TrendFileOrder[k] : k \in 1..computed}
          IN  /\ results' = [f \in ResultFiles |->
                    IF f \in done THEN File(TrendTable(f)) ELSE results[f]]
              /\ written_by' = [f \in ResultFiles |->
                    IF f \in done THEN run.n ELSE written_by[f]]
    /\ data' = data
    /\ pc' = "raised"
    /\ UNCHANGED <<run, observed, left_order, previous, served, temperature_csv,
                   station_metadata_csv, ghcnm_tar, temp_df, station_metadata,
                   trend_results, extreme_results>>

\* Lines 195-214: a computation raises (out of memory, an interrupt), before
\* or after line 213 has put the decade column on the caller's frame; the
\* to_csv calls of lines 217-220 are not reached and nothing is returned.
TrendsComputeRaises ==
    /\ pc = "analyze_temperature_trends"
    /\ \E decade_assigned \in BOOLEAN :
          data' = IF decade_assigned THEN WithDecade(data) ELSE data
    /\ pc' = "raised"
    /\ UNCHANGED <<run, written_by, observed, left_order, previous, served,
                   temperature_csv, station_metadata_csv, ghcnm_tar, temp_df,
                   station_metadata, trend_results, extreme_results, results>>

NextCompute ==
    \/ NextStore
    \/ TrendsComputeRaises

\* The result store over executions in which a computation of the trend
\* tables, or a to_csv, may raise.
SpecCompute == InitStore /\ [][NextCompute]_vars

(***************************************************************************)
(* Properties.                                                             *)
(***************************************************************************)
\* preprocess_data has returned its frame to run_analysis.
PreprocessReturned ==
    pc \in {"analyze_temperature_trends", "analyze_extreme_temperatures",
            "save_processed_data", "done"}

\* analyze_temperature_trends has returned.
TrendsReturned == pc \in {"analyze_extreme_temperatures", "save_processed_data", "done"}

\* analyze_extreme_temperatures has returned.
ExtremesReturned == pc \in {"save_processed_data", "done"}

\* The meteorological seasons: Dec-Feb, Mar-May, Jun-Aug, Sep-Nov.
MeteorologicalSeason(month) ==
    IF month \in {12, 1, 2} THEN "Winter"
    ELSE IF month \in 3..5 THEN "Spring"
    ELSE IF month \in 6..8 THEN "Summer"
    ELSE "Fall"

\* C1: every enriched record of a month in 1..12 carries the meteorological
\* season of its month (12, 1, 2 Winter; 3-5 Spring; 6-8 Summer; 9-11 Fall).
C1_SeasonOfMonth ==
    PreprocessReturned =>
        \A i \in 1..Len(data) :
            data[i].month \in 1..12 =>
                data[i].season = MeteorologicalSeason(data[i].month)

\* The region of the spec's table of upper-bound-inclusive bins.
BinRegion(lat) ==
    IF -90 < lat /\ lat <= -60 THEN "Antarctica"
    ELSE IF -60 < lat /\ lat <= -30 THEN "Southern"
    ELSE IF -30 < lat /\ lat <= 0 THEN "Tropical S"
    ELSE IF 0 < lat /\ lat <= 30 THEN "Tropical N"
    ELSE IF 30 < lat /\ lat <= 60 THEN "Northern"
    ELSE IF 60 < lat /\ lat <= 90 THEN "Arctic"
    ELSE "NaN"

\* C2: every enriched record whose latitude lies in one of the six bins
\* (lower edge excluded, upper edge included) carries that bin's region.
C2_RegionBins ==
    PreprocessReturned =>
        \A i \in 1..Len(data) :
            (-90 < data[i].latitude /\ data[i].latitude <= 90) =>
                data[i].region = BinRegion(data[i].latitude)

\* C2: a record on the interior edge -60 has been given the bin below it.
C2_Witness ==
    /\ pc = "done"
    /\ \E i \in 1..Len(data) : data[i].latitude = -60 /\ data[i].region = "Antarctica"

RegionSet == {RegionLabels[i] : i \in 1..Len(RegionLabels)}

\* C3 as stated: every latitude of [-90, 90] has a region, -90 is Antarctica,
\* 0 is Tropical N and 90 is Arctic.
C3_RegionTotalOnClosedRange ==
    PreprocessReturned =>
        \A i \in 1..Len(data) :
            data[i].latitude \in -90..90 =>
                /\ data[i].region \in RegionSet
                /\ data[i].latitude = -90 => data[i].region = "Antarctica"
                /\ data[i].latitude = 0 => data[i].region = "Tropical N"
                /\ data[i].latitude = 90 => data[i].region = "Arctic"

\* C3 amended: every latitude above -90 and up to 90 has a region, 0 is
\* Tropical S and 90 is Arctic; a latitude of exactly -90 has no region.
C3_RegionTotalAboveMinus90 ==
    PreprocessReturned =>
        \A i \in 1..Len(data) :
            /\ (-90 < data[i].latitude /\ data[i].latitude <= 90) =>
                   data[i].region \in RegionSet
            /\ data[i].latitude = -90 => data[i].region = "NaN"
            /\ data[i].latitude = 0 => data[i].region = "Tropical S"
            /\ data[i].latitude = 90 => data[i].region = "Arctic"

\* C3: a record of a station at latitude -90 has been enriched, without a region.
C3_Witness ==
    /\ pc = "done"
    /\ \E i \in 1..Len(data) : data[i].latitude = -90 /\ data[i].region = "NaN"

UniqueStationIds(meta) ==
    \A i, j \in 1..Len(meta) : meta[i].station_id = meta[j].station_id => i = j

\* C5: with unique station ids in the metadata, the enriched frame holds
\* exactly one row for every temperature record whose station has a metadata
\* row, carrying that record's columns, and none for any other record (in the
\* order of the records where the merge keeps the left order); the run has
\* not raised.
C5_InnerJoin ==
    /\ pc # "raised"
    /\ (PreprocessReturned /\ UniqueStationIds(station_metadata)) =>
          LET known == Values(station_metadata, "station_id")
              kept == SelectRows(temp_df,
                          {i \in 1..Len(temp_df) : temp_df[i].station_id \in known})
              n == Len(kept)
              Same(i, j) == \A c \in DOMAIN kept[i] : data[j][c] = kept[i][c]
          IN  /\ Len(data) = n
              /\ left_order => \A i \in 1..n : Same(i, i)
              /\ \A i \in 1..n :
                    Cardinality({j \in 1..n : Same(i, j)})
                        = Cardinality({j \in 1..n : kept[j] = kept[i]})

\* C5: a run has finished in which a record of S3, a station without
\* metadata, was dropped and every other record kept.
C5_Witness ==
    /\ pc = "done"
    /\ UniqueStationIds(station_metadata)
    /\ "S3" \notin Values(station_metadata, "station_id")
    /\ Cardinality({i \in 1..Len(temp_df) : temp_df[i].station_id = "S3"}) = 1
    /\ Len(temp_df) = 2
    /\ Len(data) = 1

(***************************************************************************)
(* Means restated over the raw integer temperatures (tenths of a degree).  *)
(***************************************************************************)
RECURSIVE SumOver(_, _)
\* The sum of f[x] over the x of S.
SumOver(f, S) ==
    IF S = {} THEN 0
    ELSE LET x == CHOOSE y \in S : TRUE
         IN  f[x] + SumOver(f, S \ {x})

RECURSIVE RSumOver(_, _)
\* The sum of the rationals f[x] over the x of S.
RSumOver(f, S) ==
    IF S = {} THEN RInt(0)
    ELSE LET x == CHOOSE y \in S : TRUE
         IN  RAdd(f[x], RSumOver(f, S \ {x}))

Tenths == [i \in 1..Len(data) |-> data[i].temperature]

\* The mean, in degrees, of the enriched records with index in S.
MeanOfRecords(S) ==
    IF S = {} THEN NaN ELSE Rat(SumOver(Tenths, S), 10 * Cardinality(S))

\* The mean of the means m[k], k in K.
MeanOfMeans(m, K) ==
    IF K = {} THEN NaN ELSE RDivInt(RSumOver(m, K), Cardinality(K))

RecordsOfYear(y) == {i \in 1..Len(data) : data[i].year = y}

RecordsOfYearRegion(y, reg) ==
    {i \in 1..Len(data) : data[i].year = y /\ data[i].region = reg}

RecordsOfDecadeRegion(d, reg) ==
    {i \in 1..Len(data) :
        d <= data[i].year /\ data[i].year < d + 10 /\ data[i].region = reg}

\* The years of 1961..1990 in which region reg has a record.
WindowYears(reg) ==
    {y \in Values(data, "year") :
        1961 <= y /\ y <= 1990 /\ RecordsOfYearRegion(y, reg) # {}}

\* The years in which region reg has a record.
YearsOfRegion(reg) ==
    {y \in Values(data, "year") : RecordsOfYearRegion(y, reg) # {}}

\* C4: the decade of every enriched record is the multiple of 10 with
\* decade <= year < decade + 10 (1969 -> 1960, 1970 -> 1970, 2020 -> 2020);
\* every (decade, region) with a record has a decadal_avg row, and every
\* decadal_avg row, in memory and on file, holds the mean of temperature_c
\* over exactly the records of that decade and region.
C4_DecadalAvg ==
    TrendsReturned =>
        LET t == trend_results.decadal_avg
        IN  /\ \A i \in 1..Len(data) :
                  /\ data[i].decade % 10 = 0
                  /\ data[i].decade <= data[i].year
                  /\ data[i].year < data[i].decade + 10
                  /\ data[i].year = 1969 => data[i].decade = 1960
                  /\ data[i].year = 1970 => data[i].decade = 1970
                  /\ data[i].year = 2020 => data[i].decade = 2020
            /\ \A i \in 1..Len(data) :
                  data[i].region # "NaN" =>
                      \E r \in 1..Len(t) :
                          /\ t[r].region = data[i].region
                          /\ i \in RecordsOfDecadeRegion(t[r].decade, t[r].region)
            /\ \A r \in 1..Len(t) :
                  /\ t[r].decade % 10 = 0
                  /\ t[r].temperature_c =
                        MeanOfRecords(RecordsOfDecadeRegion(t[r].decade, t[r].region))
            /\ results["decadal_avg"] = File(t)

\* C4: a finished run whose decade 1960 holds a 1969 record, with a
\* decadal_avg row averaging two records of different temperatures.
C4_Witness ==
    /\ pc = "done"
    /\ \E i \in 1..Len(data) : data[i].year = 1969 /\ data[i].decade = 1960
    /\ \E r \in 1..Len(trend_results.decadal_avg) :
          LET row == trend_results.decadal_avg[r]
              cell == RecordsOfDecadeRegion(row.decade, row.region)
          IN  \E i, j \in cell : data[i].temperature # data[j].temperature

\* C6: annual_global_avg has exactly one row per year of the enriched
\* records; its temperature_c is the mean over the records of that year and
\* its temp_anomaly that mean minus the unweighted mean of the per-year means.
C6_AnnualGlobalAvg ==
    TrendsReturned =>
        LET t == trend_results.annual_global_avg
            years == Values(data, "year")
            yearMean == [y \in years |-> MeanOfRecords(RecordsOfYear(y))]
        IN  /\ Len(t) = Cardinality(years)
            /\ Values(t, "year") = years
            /\ \A r \in 1..Len(t) :
                  /\ t[r].temperature_c = yearMean[t[r].year]
                  /\ t[r].temp_anomaly =
                        RSub(yearMean[t[r].year], MeanOfMeans(yearMean, years))

\* C6: a finished run over several years in which the mean of the per-year
\* means differs from the mean of all records.
C6_Witness ==
    /\ pc = "done"
    /\ Len(trend_results.annual_global_avg) >= 2
    /\ LET years == Values(data, "year")
           yearMean == [y \in years |-> MeanOfRecords(RecordsOfYear(y))]
       IN  MeanOfMeans(yearMean, years) # MeanOfRecords(1..Len(data))

\* C7: over a non-empty enriched record set the temp_anomaly values of
\* annual_global_avg sum to zero.
C7_AnomaliesSumToZero ==
    (TrendsReturned /\ Len(data) > 0) =>
        RSum(Column(trend_results.annual_global_avg, "temp_anomaly")) = RInt(0)

\* C7: a finished run with a year inside and a year outside 1961..1990 and a
\* non-zero anomaly.
C7_Witness ==
    /\ pc = "done"
    /\ \E r, q \in 1..Len(trend_results.annual_global_avg) :
          /\ trend_results.annual_global_avg[r].temp_anomaly # RInt(0)
          /\ trend_results.annual_global_avg[r].year = 1961
          /\ trend_results.annual_global_avg[q].year = 1991

\* The baseline of a region: the unweighted mean of its per-year means over
\* its years in 1961..1990.
BaselineOf(reg) ==
    MeanOfMeans([y \in WindowYears(reg) |-> MeanOfRecords(RecordsOfYearRegion(y, reg))],
                WindowYears(reg))

\* C8: for every region with a record in 1961..1990, every year of the region
\* has an annual_regional_avg row, and every row of the region carries the
\* mean of its (year, region) records, the region's baseline (the unweighted
\* mean of its per-year means over 1961..1990, both ends included) and
\* temp_anomaly = temperature_c - baseline_temp.
C8_RegionalBaseline ==
    TrendsReturned =>
        LET t == trend_results.annual_regional_avg
        IN  \A reg \in RegionSet :
                WindowYears(reg) # {} =>
                    /\ \A y \in YearsOfRegion(reg) :
                          \E r \in 1..Len(t) : t[r].year = y /\ t[r].region = reg
                    /\ \A r \in 1..Len(t) :
                          t[r].region = reg =>
                              /\ t[r].temperature_c =
                                    MeanOfRecords(RecordsOfYearRegion(t[r].year, reg))
                              /\ t[r].baseline_temp = BaselineOf(reg)
                              /\ ~IsNaN(t[r].baseline_temp)
                              /\ t[r].temp_anomaly =
                                    RSub(t[r].temperature_c, t[r].baseline_temp)

\* C8: a finished run in which Tropical N has records in 1961, in 1990 and
\* outside the window, and a non-zero anomaly on a row outside the window.
C8_Witness ==
    /\ pc = "done"
    /\ WindowYears("Tropical N") = {1961, 1990}
    /\ \E r \in 1..Len(trend_results.annual_regional_avg) :
          LET row == trend_results.annual_regional_avg[r]
          IN  /\ row.region = "Tropical N"
              /\ row.year \in {1960, 1991}
              /\ ~IsNaN(row.temp_anomaly)
              /\ row.temp_anomaly # RInt(0)

\* C9: a region whose records all lie outside 1961..1990 keeps an
\* annual_regional_avg row for every one of its years, each with its mean and
\* a missing temp_anomaly.
C9_UndefinedBaselineKept ==
    TrendsReturned =>
        LET t == trend_results.annual_regional_avg
        IN  \A reg \in RegionSet :
                (YearsOfRegion(reg) # {} /\ WindowYears(reg) = {}) =>
                    \A y \in YearsOfRegion(reg) :
                        \E r \in 1..Len(t) :
                            /\ t[r].year = y
                            /\ t[r].region = reg
                            /\ ~IsNaN(t[r].temperature_c)
                            /\ IsNaN(t[r].temp_anomaly)

\* The enriched records of the station of record i.
OwnStation(i) == {j \in 1..Len(data) : data[j].station_id = data[i].station_id}

\* n * t - S for record i of a station with n records of sum S: the sign and
\* size of t - mean, scaled by n.
Deviation(i) ==
    Cardinality(OwnStation(i)) * data[i].temperature - SumOver(Tenths, OwnStation(i))

\* n * Q - S * S for the station of record i (Q the sum of squares): the
\* sample variance scaled by n * (n - 1).
Spread(i) ==
    LET own == OwnStation(i)
        s == SumOver(Tenths, own)
    IN  Cardinality(own) * SumOver([j \in 1..Len(data) |-> Tenths[j] * Tenths[j]], own) - s * s

\* |t - mean| > 2 * std with the sample standard deviation (divisor n - 1),
\* cleared of fractions and roots: (n*t - S)^2 * (n - 1) > 4 * n * (n*Q - S^2).
BeyondTwoStd(i) ==
    LET n == Cardinality(OwnStation(i))
    IN  /\ n >= 2
        /\ Deviation(i) * Deviation(i) * (n - 1) > 4 * n * Spread(i)

\* C10: a record is flagged extreme_hot exactly when its temperature is above
\* its own station's mean by more than twice the station's sample standard
\* deviation, extreme_cold exactly when it is below by more than that; the
\* flags counted in extreme_counts are these.
C10_ExtremeFlags ==
    ExtremesReturned =>
        LET f == Flagged(data)
            idx == {i \in 1..Len(data) : data[i].region # "NaN"}
        IN  /\ Len(f) = Len(data)
            /\ \A i \in 1..Len(data) :
                  /\ f[i].extreme_hot <=> (Deviation(i) > 0 /\ BeyondTwoStd(i))
                  /\ f[i].extreme_cold <=> (Deviation(i) < 0 /\ BeyondTwoStd(i))
            /\ SumOver([r \in 1..Len(extreme_results) |-> extreme_results[r].extreme_hot],
                       1..Len(extreme_results))
                  = Cardinality({i \in idx : Deviation(i) > 0 /\ BeyondTwoStd(i)})
            /\ SumOver([r \in 1..Len(extreme_results) |-> extreme_results[r].extreme_cold],
                       1..Len(extreme_results))
                  = Cardinality({i \in idx : Deviation(i) < 0 /\ BeyondTwoStd(i)})

\* C10: a finished run with a record exactly on its station's mean + 2 * std,
\* the std not zero, and no record counted as extreme_hot.
C10_Witness ==
    /\ pc = "done"
    /\ \E i \in 1..Len(data) :
          /\ Deviation(i) > 0
          /\ Spread(i) > 0
          /\ Deviation(i) * Deviation(i) * (Cardinality(OwnStation(i)) - 1)
                = 4 * Cardinality(OwnStation(i)) * Spread(i)
    /\ \A r \in 1..Len(extreme_results) : extreme_results[r].extreme_hot = 0

\* Every record of the station of record i has the temperature of record i;
\* so it is with a station of a single record.
ConstantStation(i) == \A j \in OwnStation(i) : data[j].temperature = data[i].temperature

IsHot(i) == Deviation(i) > 0 /\ BeyondTwoStd(i)

IsCold(i) == Deviation(i) < 0 /\ BeyondTwoStd(i)

\* The rows of extreme_counts of the decade and the region of record i.
CellsOf(i) ==
    {r \in 1..Len(extreme_results) :
        /\ extreme_results[r].decade = DecadeOf(data[i].year)
        /\ extreme_results[r].region = data[i].region}

\* The records among S of the decade and region of row r of extreme_counts.
RecordsOfCell(r, S) ==
    {i \in S : /\ DecadeOf(data[i].year) = extreme_results[r].decade
               /\ data[i].region = extreme_results[r].region}

\* The rows of extreme_counts count the records of S: each record of S has one
\* row, each row counts the flagged records among S of its decade and region,
\* and the columns sum to the numbers of flagged records among S.
CountsCover(S) ==
    LET rows == 1..Len(extreme_results)
    IN  /\ \A i \in S : Cardinality(CellsOf(i)) = 1
        /\ \A r \in rows :
              /\ extreme_results[r].extreme_hot
                    = Cardinality({i \in RecordsOfCell(r, S) : IsHot(i)})
              /\ extreme_results[r].extreme_cold
                    = Cardinality({i \in RecordsOfCell(r, S) : IsCold(i)})
        /\ SumOver([r \in rows |-> extreme_results[r].extreme_hot], rows)
              = Cardinality({i \in S : IsHot(i)})
        /\ SumOver([r \in rows |-> extreme_results[r].extreme_cold], rows)
              = Cardinality({i \in S : IsCold(i)})

\* C12 as stated: every enriched record has exactly one (decade, region) row
\* of extreme_counts, every row counts the flagged records of its decade and
\* region, and the columns sum to the numbers of flagged records.
C12_EveryRecordCounted ==
    ExtremesReturned => CountsCover(1..Len(data))

\* C12 amended: that holds of the enriched records that have a region; a
\* record without region (latitude -90) has no row and is counted nowhere.
C12_RecordsWithRegionCounted ==
    ExtremesReturned =>
        /\ CountsCover({i \in 1..Len(data) : data[i].region # "NaN"})
        /\ \A i \in 1..Len(data) : data[i].region = "NaN" => CellsOf(i) = {}

\* C12: a finished run with records of S1 in three decades or more, one of
\* them flagged extreme_hot and counted in the row of its decade.
C12_Witness ==
    /\ pc = "done"
    /\ Cardinality({DecadeOf(data[i].year) : i \in 1..Len(data)}) >= 3
    /\ \E i \in 1..Len(data) :
          /\ IsHot(i)
          /\ data[i].region = "Tropical N"
          /\ \A r \in CellsOf(i) : extreme_results[r].extreme_hot = 1

\* No two rows of table agree on all the columns keys.
UniqueKeys(table, keys) ==
    \A i, j \in 1..Len(table) : (\A k \in keys : table[i][k] = table[j][k]) => i = j

\* The grouping keys of the aggregate tables.
GroupingKeys ==
    [annual_global_avg |-> <<"year">>,
     annual_regional_avg |-> <<"year", "region">>,
     seasonal_avg |-> <<"year", "season">>,
     decadal_avg |-> <<"decade", "region">>,
     extreme_counts |-> <<"decade", "region">>]

KeySet(f) == {GroupingKeys[f][k] : k \in 1..Len(GroupingKeys[f])}

\* C13: every aggregate table, as returned and as written, has at most one
\* row per grouping key: year; (year, region), also after the merge with the
\* baselines; (year, season); (decade, region) for decadal_avg and
\* extreme_counts.
C13_OneRowPerKey ==
    /\ \A f \in DOMAIN GroupingKeys : UniqueKeys(results[f].rows, KeySet(f))
    /\ \A f \in TrendFiles : UniqueKeys(trend_results[f], KeySet(f))
    /\ UniqueKeys(extreme_results, KeySet("extreme_counts"))

\* C13: a finished run with two records of one year, region, season and
\* decade, and rows of one region for both end years of the baseline window.
C13_Witness ==
    /\ pc = "done"
    /\ \E i, j \in 1..Len(data) :
          /\ i # j
          /\ data[i].year = data[j].year
          /\ data[i].region = data[j].region
          /\ data[i].season = data[j].season
    /\ \E r, q \in 1..Len(results["annual_regional_avg"].rows) :
          LET t == results["annual_regional_avg"].rows
          IN  /\ t[r].region = t[q].region
              /\ t[r].year = BaselineStart
              /\ t[q].year = BaselineEnd
              /\ ~IsNaN(t[r].temperature_c)
              /\ ~IsNaN(t[q].temperature_c)
    /\ Len(results["extreme_counts"].rows) >= 2

\* The error with which load_results reports that results are missing
\* ("No result files found in the 'results' directory").
ResultNotAvailable == "FileNotFoundError"

\* C14: a request for a table whose file is absent, whether or not other
\* tables exist, fails with the error that names the missing results, and
\* returns no table.
C14_AbsentTableNotAvailable ==
    [][(served' # served /\ ~results[served'.table].exists) =>
          served'.outcome = ResultNotAvailable]_vars

\* This execution is past load_data.
Loaded == pc \notin {"download_data", "load_data"}

\* This execution found no input file when it started and its download failed.
NoDataAtAll ==
    /\ ~run.had_temperature
    /\ ~run.had_metadata
    /\ run.download = "failed"

\* This execution missed an input file when it started, or its download failed.
LackingData ==
    \/ ~run.had_temperature
    \/ ~run.had_metadata
    \/ run.download = "failed"

WellFormed ==
    {i \in 1..Len(temp_df) :
        /\ temp_df[i].month \in 1..12
        /\ temp_df[i].station_id \in Values(station_metadata, "station_id")}

\* C16: a record with a month outside 1..12 is skipped: preprocess_data does
\* not raise on it, and the enriched frame holds the well-formed records.
C16_MalformedRecordSkipped ==
    (Loaded /\ pc # "preprocess_data") =>
        /\ pc = "raised" => ~DateRaises(temp_df)
        /\ Len(data) = Cardinality(WellFormed)

\* C17: no stage changes the frames it is given: preprocess_data leaves
\* temp_df and station_metadata as they were, analyze_temperature_trends and
\* analyze_extreme_temperatures leave the enriched frame as it was.
C17_NoStageModifiesItsInput ==
    [][/\ pc = "preprocess_data" =>
             temp_df' = temp_df /\ station_metadata' = station_metadata
       /\ pc \in {"analyze_temperature_trends", "analyze_extreme_temperatures"} =>
             data' = data]_vars

\* C18: when no execution is under way (before one starts, after one has
\* ended or failed) the result tables present were all written by one and the
\* same execution.
C18_TablesOfOneRun ==
    pc \in {"download_data", "done", "raised"} =>
        \A f, g \in ResultFiles :
            (results[f].exists /\ results[g].exists) => written_by[f] = written_by[g]

\* This execution started with the input files, and its download ended with
\* the outcome, of the completed execution before it: that one left the
\* input files as it had found them.
SameInputAsPrevious ==
    /\ previous.n > 0
    /\ previous.completed
    /\ previous.input_kept
    /\ previous.download = run.download

\* C19: an execution that completes on the input files and the download
\* outcome of the completed execution before it leaves all six result tables
\* with the contents that execution wrote.
C19_SameInputSameTables ==
    (pc = "done" /\ SameInputAsPrevious) => results = previous.results

\* C19: a second execution has completed on the input of the first, with
\* records in its tables.
C19_Witness ==
    /\ pc = "done"
    /\ run.n = 2
    /\ SameInputAsPrevious
    /\ \A f \in ResultFiles : results[f].rows # <<>>

\* The place of value v of column c in the order of the column: a year or a
\* decade is its own place, a region or a season has that of its category.
KeyRank(c, v) ==
    CASE c = "region" -> CHOOSE k \in 1..Len(RegionLabels) : RegionLabels[k] = v
      [] c = "season" -> CHOOSE k \in 1..Len(SeasonLabels) : SeasonLabels[k] = v
      [] OTHER -> v

\* Row a of a table comes before row b, or with it, in the order of keys.
KeysAtMost(a, b, keys) ==
    \/ \A k \in 1..Len(keys) : a[keys[k]] = b[keys[k]]
    \/ \E k \in 1..Len(keys) :
          /\ \A h \in 1..(k - 1) : a[keys[h]] = b[keys[h]]
          /\ KeyRank(keys[k], a[keys[k]]) < KeyRank(keys[k], b[keys[k]])

Ascending(table, keys) ==
    \A i \in 1..(Len(table) - 1) : KeysAtMost(table[i], table[i + 1], keys)

\* C20: the rows of every aggregate table, as returned and as written, are in
\* ascending order of its grouping keys: year; (year, region), also after the
\* merge with the baselines; (year, season); (decade, region).
C20_RowsInKeyOrder ==
    /\ \A f \in DOMAIN GroupingKeys : Ascending(results[f].rows, GroupingKeys[f])
    /\ \A f \in TrendFiles : Ascending(trend_results[f], GroupingKeys[f])
    /\ Ascending(extreme_results, GroupingKeys["extreme_counts"])

\* The columns a row of processed_data must carry.
ProcessedColumns ==
    {"station_id", "year", "month", "temperature", "temperature_c", "season",
     "latitude", "region", "decade"}

\* Row r of processed_data is temperature record t joined with its station's
\* metadata row and carrying the derived columns.
ProcessedRowOf(r, t) ==
    /\ ProcessedColumns \subseteq DOMAIN r
    /\ r.station_id = t.station_id /\ r.year = t.year
    /\ r.month = t.month /\ r.temperature = t.temperature
    /\ r.temperature_c[2] > 0
    /\ r.temperature_c[1] * 10 = t.temperature * r.temperature_c[2]
    /\ r.season = t.season /\ r.season \in {SeasonLabels[k] : k \in 1..Len(SeasonLabels)}
    /\ \E m \in 1..Len(station_metadata) :
          /\ station_metadata[m].station_id = t.station_id
          /\ r.latitude = station_metadata[m].latitude
    /\ r.region = BinRegion(r.latitude)
    /\ r.decade % 10 = 0 /\ r.decade <= t.year /\ t.year < r.decade + 10

\* C21: with unique station ids in the metadata, processed_data.csv as
\* written by a complete run holds one row for every temperature record whose
\* station has a metadata row, and no other, each with temperature_c =
\* temperature / 10, season, the metadata columns, region and decade.
C21_ProcessedDataComplete ==
    (pc = "done" /\ UniqueStationIds(station_metadata)
                 /\ \A m \in 1..Len(station_metadata) :
                        station_metadata[m].latitude \in Latitudes) =>
        LET rows == results["processed_data"].rows
            known == Values(station_metadata, "station_id")
            kept == {i \in 1..Len(temp_df) : temp_df[i].station_id \in known}
        IN  /\ results["processed_data"].exists
            /\ Len(rows) = Cardinality(kept)
            /\ \A j \in 1..Len(rows) : \E i \in kept : ProcessedRowOf(rows[j], temp_df[i])
            /\ \A i \in kept :
                  Cardinality({j \in 1..Len(rows) : ProcessedRowOf(rows[j], temp_df[i])})
                      = Cardinality({k \in kept :
                            \A c \in {"station_id", "year", "month", "temperature"} :
                                temp_df[k][c] = temp_df[i][c]})

\* C21: a complete run on two records of S1 in different months has written
\* both to processed_data.csv.
C21_Witness ==
    /\ pc = "done"
    /\ Len(results["processed_data"].rows) = 2
    /\ \A j \in 1..2 : results["processed_data"].rows[j].station_id = "S1"
    /\ results["processed_data"].rows[1].month # results["processed_data"].rows[2].month
    /\ \A j \in 1..2 : results["processed_data"].rows[j].decade = 2000

\* Lines 269-275 on the loaded frame temp and the metadata of this run: the
\* five aggregate tables.
AggregateTables(temp) ==
    LET enriched == InnerJoinOrder(Enriched(WithDerivedColumns(temp), station_metadata),
                                   "station_id", left_order)
    IN  [annual_global_avg |-> AnnualGlobalAvg(enriched),
         annual_regional_avg |->
             InnerJoinOrder(AnnualRegionalAvg(enriched, observed), "region", left_order),
         seasonal_avg |-> SeasonalAvg(enriched, observed),
         decadal_avg |-> DecadalAvg(enriched, observed),
         extreme_counts |-> ExtremeCounts(WithDecade(enriched), observed)]

\* The frame with rows k and k + 1 exchanged.
Exchanged(df, k) ==
    [i \in 1..Len(df) |-> IF i = k THEN df[k + 1] ELSE IF i = k + 1 THEN df[k] ELSE df[i]]

\* The five aggregate tables as written.
WrittenTables == [f \in DOMAIN GroupingKeys |-> results[f].rows]

\* C22: the five aggregate tables a complete run has written are those of
\* the same records in any other order: exchanging any two neighbouring
\* records of the input (and so, by repetition, any permutation) changes no
\* mean, anomaly, baseline or count.
C22_OrderOfRecordsIrrelevant ==
    pc = "done" =>
        /\ AggregateTables(temp_df) = WrittenTables
        /\ \A k \in 1..(Len(temp_df) - 1) :
              AggregateTables(Exchanged(temp_df, k)) = WrittenTables

\* C22: a complete run on records of two stations in several decades, one of
\* S1 counted as extreme_hot, some neighbouring records differing.
C22_Witness ==
    /\ pc = "done"
    /\ \E k \in 1..(Len(temp_df) - 1) :
          /\ temp_df[k].station_id # temp_df[k + 1].station_id
          /\ temp_df[k].temperature # temp_df[k + 1].temperature
    /\ \E k \in 1..(Len(temp_df) - 1) :
          /\ temp_df[k].station_id = "S1" /\ temp_df[k + 1].station_id = "S1"
          /\ temp_df[k].temperature # temp_df[k + 1].temperature
    /\ \E r \in 1..Len(extreme_results) : extreme_results[r].extreme_hot = 1

\* The frame preprocess_data returned to run_analysis, from the frames it was
\* given (temp_df already carries its derived columns).
ReturnedByPreprocess ==
    InnerJoinOrder(Enriched(temp_df, station_metadata), "station_id", left_order)

\* C23: when analyze_temperature_trends has returned and before
\* analyze_extreme_temperatures is called, the frame the two share is as
\* preprocess_data returned it (no state of one is changed by the other), the
\* counts are those of that frame, whichever ran first, and only the four
\* trend files have been written by this run.
C23_AnalysesIndependent ==
    pc = "analyze_extreme_temperatures" =>
        /\ data = ReturnedByPreprocess
        /\ ExtremeCounts(data, observed) = ExtremeCounts(ReturnedByPreprocess, observed)
        /\ \A f \in ResultFiles : written_by[f] = run.n <=> f \in TrendFiles

\* File f is written by the step.
WriteOf(f) == written_by'[f] # written_by[f] \/ results'[f] # results[f]

\* File f has been written by the execution in progress.
WrittenThisRun(f) == written_by[f] = run.n

\* The stage run_analysis is at follows the one it was at.
StageOrder ==
    <<"download_data", "load_data", "preprocess_data", "analyze_temperature_trends",
      "analyze_extreme_temperatures", "save_processed_data", "done">>

StageOf(p) == CHOOSE k \in 1..Len(StageOrder) : StageOrder[k] = p

\* C24: within an execution the stages follow each other in the order load,
\* enrich, trends, extremes, save; a result file is written only after
\* preprocess_data has returned; a trend file only while neither
\* extreme_counts nor processed_data is written; extreme_counts only when the
\* four trend files are written; processed_data only when the other five are.
C24_StagesAndWritesInOrder ==
    [][ /\ (pc' # pc /\ run'.n = run.n /\ pc' # "raised") => StageOf(pc') = StageOf(pc) + 1
        /\ \A f \in ResultFiles : WriteOf(f) =>
              /\ PreprocessReturned
              /\ data = ReturnedByPreprocess \/ data = WithDecade(ReturnedByPreprocess)
              /\ f \in TrendFiles =>
                    ~WrittenThisRun("extreme_counts") /\ ~WrittenThisRun("processed_data")
              /\ f = "extreme_counts" =>
                    /\ \A t \in TrendFiles : WrittenThisRun(t)
                    /\ ~WrittenThisRun("processed_data")
              /\ f = "processed_data" =>
                    \A g \in ResultFiles \ {f} : WrittenThisRun(g) ]_vars

\* The second execution has written its six files over those of the first.
C24_Witness ==
    /\ pc = "done"
    /\ run.n = 2
    /\ previous.completed
    /\ \A f \in ResultFiles : WrittenThisRun(f)
    /\ Len(results["processed_data"].rows) > 0

\* The (year, season) pairs of the enriched records.
SeasonPairs == {<<data[i].year, SeasonOf(data[i].month)>> : i \in 1..Len(data)}

\* The enriched records of year and season p.
RecordsOfSeason(p) ==
    {i \in 1..Len(data) : data[i].year = p[1] /\ SeasonOf(data[i].month) = p[2]}

\* Every occurring (year, season) has exactly one row of seasonal_avg, holding
\* the mean of its records, and the rows have no column but year, season and
\* temperature_c.
SeasonalRowsOfPairs(t) ==
    /\ \A r \in 1..Len(t) : DOMAIN t[r] = {"year", "season", "temperature_c"}
    /\ \A p \in SeasonPairs :
          /\ Cardinality({r \in 1..Len(t) : <<t[r].year, t[r].season>> = p}) = 1
          /\ \A r \in 1..Len(t) :
                <<t[r].year, t[r].season>> = p =>
                    t[r].temperature_c = MeanOfRecords(RecordsOfSeason(p))

\* C25: seasonal_avg has one row for each (year, season) of the enriched
\* records and no other row; the row holds the mean of temperature_c over the
\* records of that year and season; there is no anomaly column.
C25_SeasonalAvgRows ==
    TrendsReturned =>
        LET t == trend_results.seasonal_avg
        IN  /\ SeasonalRowsOfPairs(t)
            /\ \A r \in 1..Len(t) : <<t[r].year, t[r].season>> \in SeasonPairs

\* C26: no record is flagged both extreme_hot and extreme_cold, whatever its
\* station, and no row of extreme_counts counts more flags than the enriched
\* records of its decade and region.
C26_NeverHotAndCold ==
    ExtremesReturned =>
        LET f == Flagged(data)
        IN  /\ \A i \in 1..Len(f) : ~(f[i].extreme_hot /\ f[i].extreme_cold)
            /\ \A r \in 1..Len(extreme_results) :
                  extreme_results[r].extreme_hot + extreme_results[r].extreme_cold
                     <= Cardinality(RecordsOfCell(r, 1..Len(data)))

\* C26: a finished run with a record flagged extreme_hot, beside records of the
\* same station below the station's mean.
C26_Witness ==
    /\ pc = "done"
    /\ LET f == Flagged(data)
       IN  \E i \in 1..Len(data) :
              /\ f[i].extreme_hot
              /\ \E j \in OwnStation(i) : Deviation(j) < 0

\* The enriched records of stations with at least six records.
OfLargeStations == {i \in 1..Len(data) : Cardinality(OwnStation(i)) >= 6}

PersistedUsable ==
    /\ run.download = "ok"
    /\ run.had_temperature
    /\ run.had_metadata

\* C28: when load_data has returned, either the download succeeded and both
\* input files were there, and the two frames are the rows of the two files as
\* the execution found them; or both files have been overwritten with the
\* synthetic dataset and the two frames are the synthetic ones.  The two
\* frames are never of different sources, and a failed download stops nothing.
C28_PersistedOrSynthetic ==
    /\ pc = "load_data" => run.download \in {"ok", "failed"}
    /\ pc = "preprocess_data" =>
          IF PersistedUsable
          THEN /\ run.input_kept
               /\ temp_df = temperature_csv.rows
               /\ station_metadata = station_metadata_csv.rows
          ELSE /\ temperature_csv = File(SampleTemperature)
               /\ station_metadata_csv = File(SampleMetadata)
               /\ temp_df = SampleTemperature
               /\ station_metadata = SampleMetadata

\* The result files that exist.
ExistingResults == {f \in ResultFiles : results[f].exists}

\* C29: whatever the state of the results directory, load_results raises
\* FileNotFoundError exactly when none of the six files exists, and otherwise
\* returns a collection whose keys are exactly the names of the files that
\* exist: a partial directory gives a partial collection, with no entry for a
\* missing table; so a consumer that was handed a table asked for an existing one.
C29_LoadResultsPartial ==
    LET loaded == LoadResults(results)
    IN  /\ loaded.raised = "FileNotFoundError" <=> ExistingResults = {}
        /\ loaded.raised \in {"", "FileNotFoundError"}
        /\ loaded.raised = "" => DOMAIN loaded.tables = ExistingResults
        /\ loaded.raised # "" => loaded.tables = <<>>
        /\ served.outcome = "returned" => served.table \in ExistingResults
        /\ served.outcome = "KeyError" => ExistingResults # {}

\* C29: some of the six files exist and some do not (a to_csv of the analysis
\* raised), and a consumer has been handed one of the existing tables.
C29_Witness ==
    /\ pc = "raised"
    /\ ExistingResults # {}
    /\ ExistingResults # ResultFiles
    /\ served.outcome = "returned"
    /\ served.table \in ExistingResults

\* The step leaves analyze_temperature_trends by an exception raised before
\* line 213 has assigned the decade column.
RaisedComputing ==
    /\ pc = "analyze_temperature_trends"
    /\ pc' = "raised"
    /\ data # <<>>
    /\ data' = data

\* C30: analyze_temperature_trends writes a trend file only when all four
\* tables are computed: a step of it that writes one has the decade column of
\* line 213 on the frame and writes the computed table; a call that raises
\* while computing leaves the four files, and who wrote them, as they were.
C30_TrendFilesAfterAllComputed ==
    [][ /\ pc = "analyze_temperature_trends" =>
              \A f \in TrendFiles :
                  WriteOf(f) => /\ data' = WithDecade(data)
                                /\ results'[f] = File(TrendTable(f))
                                /\ written_by'[f] = run.n
        /\ RaisedComputing =>
              \A f \in ResultFiles : ~WriteOf(f) ]_vars

\* C30: the second execution raised while computing the trend tables, and
\* the four trend files are those the first execution wrote.
C30_Witness ==
    /\ pc = "raised"
    /\ run.n = 2
    /\ previous.completed
    /\ data # <<>>
    /\ \A i \in 1..Len(data) : "decade" \notin DOMAIN data[i]
    /\ \A f \in TrendFiles :
          /\ written_by[f] = 1
          /\ results[f] = previous.results[f]
          /\ results[f].rows # <<>>

====
